---------------------------- MODULE Spec2Model ----------------------------
(***************************************************************************)
(* Compile-job dispatch and execution pipeline of the remote compilation   *)
(* gateway (api/src/handlers.rs).  Strings are sequences of one-character  *)
(* strings, so that extension extraction, substring replacement and path   *)
(* joining are computed character by character as the code computes them.  *)
(***************************************************************************)
EXTENDS Integers, Sequences, FiniteSets

(***************************************************************************)
(* Bounds of the model.                                                    *)
(***************************************************************************)
\* number of directory segments a caller-supplied path may have
MaxDirs == 1
\* number of pieces a captured output text is concatenated from
MaxParts == 2
\* number of concurrent requests in SpecRace
NumJobs == 2

(***************************************************************************)
(* String literals.                                                        *)
(***************************************************************************)
Slash == "/"
Dot == "."
S_cairo == <<"c", "a", "i", "r", "o">>
S_CAIRO == <<"C", "A", "I", "R", "O">>
S_sierra == <<"s", "i", "e", "r", "r", "a">>
S_casm == <<"c", "a", "s", "m">>
S_txt == <<"t", "x", "t">>
S_proj == <<"p", "r", "o", "j">>
S_test == <<"t", "e", "s", "t">>
S_dotdot == <<".", ".">>
S_target_dev == <<"t", "a", "r", "g", "e", "t", "/", "d", "e", "v">>
S_err == <<"e", "r", "r", " ">>

(***************************************************************************)
(* String functions of the standard library, as the handlers use them.     *)
(***************************************************************************)
\* whether pat occurs in s at position i
MatchAt(s, pat, i) ==
    /\ i >= 1
    /\ i + Len(pat) - 1 <= Len(s)
    /\ SubSeq(s, i, i + Len(pat) - 1) = pat

\* str::contains
Contains(s, pat) == \E i \in 1..(Len(s) + 1) : MatchAt(s, pat, i)

\* the position of the first occurrence of pat in s at or after i, 0 when
\* there is none
NextMatch(s, pat, i) ==
    LET found == {k \in i..Len(s) : MatchAt(s, pat, k)}
    IN  IF found = {} THEN 0 ELSE CHOOSE k \in found : \A m \in found : k <= m

\* str::replace from position i on: non-overlapping matches, left to right, in one
\* pass; the replacement text is never scanned again.  An empty pattern matches
\* at every character boundary.
RECURSIVE ReplaceFrom(_, _, _, _)
ReplaceFrom(s, from, to, i) ==
    IF Len(from) = 0
    THEN IF i > Len(s) THEN to
         ELSE to \o <<s[i]>> \o ReplaceFrom(s, from, to, i + 1)
    ELSE LET k == NextMatch(s, from, i)
         IN  IF k = 0 THEN SubSeq(s, i, Len(s))
             ELSE SubSeq(s, i, k - 1) \o to \o ReplaceFrom(s, from, to, k + Len(from))

\* str::replace
Replace(s, from, to) == ReplaceFrom(s, from, to, 1)

\* positions of character c in s
Positions(s, c) == {i \in 1..Len(s) : s[i] = c}

\* position of the last occurrence of character c in s, 0 when there is none
LastIndexOf(s, c) ==
    IF Positions(s, c) = {} THEN 0
    ELSE CHOOSE i \in Positions(s, c) : \A k \in Positions(s, c) : k <= i

\* Path::join on textual paths: an absolute right-hand side replaces the base, a
\* separator is added unless the base already ends with one
PathJoin(base, rel) ==
    IF Len(rel) > 0 /\ rel[1] = Slash THEN rel
    ELSE IF Len(base) = 0 \/ base[Len(base)] = Slash THEN base \o rel
    ELSE base \o <<Slash>> \o rel

\* Path::parent on textual paths: the path without its last component
PathParent(p) ==
    IF LastIndexOf(p, Slash) = 0 THEN <<>>
    ELSE IF LastIndexOf(p, Slash) = 1 THEN <<Slash>>
    ELSE SubSeq(p, 1, LastIndexOf(p, Slash) - 1)

\* Path::file_name on textual paths: the last component
FileName(p) == SubSeq(p, LastIndexOf(p, Slash) + 1, Len(p))

\* the directories fs::create_dir_all(p) makes sure exist: p and its ancestors
DirChain(p) ==
    {SubSeq(p, 1, i - 1) : i \in {k \in Positions(p, Slash) : k > 1}}
        \cup (IF Len(p) = 0 \/ p = <<Slash>> THEN {} ELSE {p})

(***************************************************************************)
(* Path Resolver (crate::utils::lib, outside the handlers file).           *)
(***************************************************************************)
CAIRO_ROOT == <<"/", "u">>
SIERRA_ROOT == <<"/", "s">>
CASM_ROOT == <<"/", "c">>
CAIRO_DIR == <<"/", "b">>

\* the substring after the last ".", empty when there is none
get_file_ext(p) ==
    IF LastIndexOf(p, Dot) = 0 THEN <<>>
    ELSE SubSeq(p, LastIndexOf(p, Dot) + 1, Len(p))

\* the relative path joined onto the project root
get_file_path(p) == PathJoin(CAIRO_ROOT, p)


(***************************************************************************)
(* Requests.                                                               *)
(***************************************************************************)
DirNames == {S_proj, S_cairo, S_sierra, S_dotdot}
ExtSuffixes ==
    {<<>>, <<Dot>> \o S_cairo, <<Dot>> \o S_CAIRO, <<Dot>> \o S_sierra, <<Dot>> \o S_txt}

\* the directory segments ds, each followed by a separator
RECURSIVE DirPrefix(_)
DirPrefix(ds) ==
    IF Len(ds) = 0 THEN <<>> ELSE ds[1] \o <<Slash>> \o DirPrefix(Tail(ds))

\* caller-supplied relative paths: up to MaxDirs directories, a stem, an extension
RelPaths ==
    {DirPrefix(ds) \o S_test \o e :
        ds \in UNION {[1..n -> DirNames] : n \in 0..MaxDirs}, e \in ExtSuffixes}

\* a PathBuf: text, or bytes that are no UTF-8 text (to_str() gives None)
NoPath == [utf8 |-> TRUE, s |-> <<>>]
NonUtf8Path == [utf8 |-> FALSE, s |-> <<>>]
AllPaths == {[utf8 |-> TRUE, s |-> p] : p \in RelPaths} \cup {NonUtf8Path}
\* the path the concurrent requests compete for
RacePaths == {[utf8 |-> TRUE, s |-> S_test \o <<Dot>> \o S_cairo]}
\* the paths of the requests that follow one another
SeqPaths ==
    {[utf8 |-> TRUE, s |-> S_test \o <<Dot>> \o S_cairo],
     [utf8 |-> TRUE, s |-> S_test \o <<Dot>> \o S_sierra]}

CompileKinds == {"SierraCompile", "CasmCompile"}
RaceKinds == {"SierraCompile"}
ApiCommand == {"CairoVersion", "SierraCompile", "CasmCompile", "ScarbCompile", "Shutdown"}
AllKinds == ApiCommand \cup {"SaveCode"}
NoReq == [kind |-> "", path |-> NoPath]

Jobs == 1..NumJobs

(***************************************************************************)
(* Files, process outcomes and responses.                                  *)
(***************************************************************************)
\* readable: whether read_dir succeeds on the directory
DirNode == [t |-> "dir", utf8 |-> TRUE, data |-> <<>>, readable |-> TRUE]
\* a directory whose mode lets nobody list it
LockedDirNode == [DirNode EXCEPT !.readable = FALSE]
FileNode(utf8, data) == [t |-> "file", utf8 |-> utf8, data |-> data, readable |-> TRUE]
EmptyFs == [p \in {} |-> DirNode]

IsDir(f, p) == p \in DOMAIN f /\ f[p].t = "dir"
Put(f, p, node) == [q \in DOMAIN f \cup {p} |-> IF q = p THEN node ELSE f[q]]

\* fs::create_dir_all(d): d and its missing ancestors become directories
create_dir_all(f, d) ==
    [q \in DOMAIN f \cup DirChain(d) |-> IF q \in DOMAIN f THEN f[q] ELSE DirNode]

\* captured bytes: text, or bytes that String::from_utf8 rejects
Text(s) == [utf8 |-> TRUE, s |-> s]
\* bytes that are no text, each byte named by its two hex digits: the single
\* byte ff, the truncated sequence e2 82, and ff after two bytes of text
NonUtf8Bytes == [utf8 |-> FALSE, s |-> <<"ff">>]
TruncatedBytes == [utf8 |-> FALSE, s |-> <<"e2", "82">>]
LateBadBytes == [utf8 |-> FALSE, s |-> <<"61", "62", "ff", "63", "64">>]
\* ExitStatus::code(): Some(code), or None when a signal ended the process
ExitCodes ==
    {[some |-> TRUE, code |-> c] : c \in {0, 1, 127}} \cup {[some |-> FALSE, code |-> 0]}
\* the exit codes of the tools in SpecRace: success and failure
RaceCodes == {c \in ExitCodes : c.some /\ c.code \in {0, 1}}
NoOut == [status |-> [some |-> FALSE, code |-> 0], stdout |-> Text(<<>>), stderr |-> Text(<<>>)]
NoCmd == [exe |-> "", tool |-> "", cwd |-> <<>>, src |-> <<>>, dst |-> <<>>, flag |-> ""]

M_not_found == <<"File path not found">>
M_not_supported == <<"File extension not supported">>
E_invalid_utf8 == <<"stream did not contain valid UTF-8">>
E_not_found == <<"No such file or directory (os error 2)">>
\* the bytes of the model by their role in UTF-8: one-byte characters, the
\* lead byte of a three-byte character, continuation bytes; ff is never valid
AsciiBytes == {"61", "62", "63", "64"}
Lead3Bytes == {"e2"}
ContBytes == {"82", "ac"}

\* String::from_utf8 on bytes b, from the i-th on: the number of bytes that
\* are valid text (valid_up_to) and the length of the sequence that is not
\* (error_len, 0 for None: the bytes end inside a character)
RECURSIVE Utf8Error(_, _)
Utf8Error(b, i) ==
    IF i > Len(b) THEN [valid |-> TRUE, valid_up_to |-> i - 1, error_len |-> 0]
    ELSE IF b[i] \in AsciiBytes THEN Utf8Error(b, i + 1)
    ELSE IF b[i] \in Lead3Bytes
    THEN IF i + 1 > Len(b) THEN [valid |-> FALSE, valid_up_to |-> i - 1, error_len |-> 0]
         ELSE IF b[i + 1] \notin ContBytes
         THEN [valid |-> FALSE, valid_up_to |-> i - 1, error_len |-> 1]
         ELSE IF i + 2 > Len(b)
         THEN [valid |-> FALSE, valid_up_to |-> i - 1, error_len |-> 0]
         ELSE IF b[i + 2] \notin ContBytes
         THEN [valid |-> FALSE, valid_up_to |-> i - 1, error_len |-> 2]
         ELSE Utf8Error(b, i + 3)
    ELSE [valid |-> FALSE, valid_up_to |-> i - 1, error_len |-> 1]

\* a number in decimal digits
RECURSIVE Decimal(_)
Decimal(n) ==
    LET d == <<"0", "1", "2", "3", "4", "5", "6", "7", "8", "9">>
    IN  IF n < 10 THEN <<d[n + 1]>> ELSE Decimal(n \div 10) \o <<d[(n % 10) + 1]>>

\* FromUtf8Error::to_string() for bytes that are no text
FromUtf8Error(bytes) ==
    LET e == Utf8Error(bytes.s, 1)
    IN  IF e.error_len = 0
        THEN <<"incomplete utf-8 byte sequence from index ">> \o Decimal(e.valid_up_to)
        ELSE <<"invalid utf-8 sequence of ">> \o Decimal(e.error_len)
             \o <<" bytes from index ">> \o Decimal(e.valid_up_to)
E_is_a_directory == <<"Is a directory (os error 21)">>

NoResp == [ok |-> TRUE, status |-> "", message |-> <<>>, file_content |-> <<>>, files |-> <<>>]
\* CompileResponse / ScarbCompileResponse
Response(status, message, file_content, files) ==
    [ok |-> TRUE, status |-> status, message |-> message,
     file_content |-> file_content, files |-> files]

(***************************************************************************)
(* Pieces of the handlers.                                                 *)
(***************************************************************************)
\* the extension a compile job requires of its source file
RequiredExt(kind) == IF kind = "SierraCompile" THEN S_cairo ELSE S_sierra
\* the extension of the artifact a compile job produces
TargetExt(kind) == IF kind = "SierraCompile" THEN S_sierra ELSE S_casm
\* the root the artifact goes under
TargetRoot(kind) == IF kind = "SierraCompile" THEN SIERRA_ROOT ELSE CASM_ROOT

\* a faulty variant: the extension compared without regard to case
ExtSupportedAnyCase(kind, ext) ==
    \/ ext = RequiredExt(kind)
    \/ kind = "SierraCompile" /\ ext = S_CAIRO
\* `ext if ext == "cairo"` / `ext if ext == "sierra"`
ExtSupported(kind, ext) == ext = RequiredExt(kind)

\* sierra_remix_path / casm_remix_path
DestRel(kind, p) == Replace(p, get_file_ext(p), TargetExt(kind))
\* sierra_path / casm_path
DestPath(kind, p) == PathJoin(TargetRoot(kind), DestRel(kind, p))

\* the path a job creates the parent directory of
PreparedPath(r) ==
    IF r.kind = "SaveCode" THEN get_file_path(r.path.s) ELSE DestPath(r.kind, r.path.s)

\* NamedFile::open(..).await.ok(): whether the artifact can be opened
CanOpen(f, dst) == dst \in DOMAIN f

\* the file_content expression once the open has been tried: "" when it
\* failed; else the file is read by its path, and file_content is its text, or
\* the error's text when it cannot be read as text
ReadBack(opened, f, dst) ==
    IF ~opened THEN <<>>
    ELSE IF dst \notin DOMAIN f THEN E_not_found
    ELSE IF f[dst].t = "dir" THEN E_is_a_directory
    ELSE IF f[dst].utf8 THEN f[dst].data
    ELSE E_invalid_utf8

\* a faulty variant: a signal-terminated process reported as a failed compilation
StatusOfNoneAsFailure(kind, status) ==
    IF status.some /\ status.code = 0 THEN "Success"
    ELSE IF kind = "SierraCompile" THEN "CompilationFailed"
    ELSE "SierraCompilationFailed"
\* `match output.status.code()`
StatusOf(kind, status) ==
    IF ~status.some THEN "UnknownError"
    ELSE IF status.code = 0 THEN "Success"
    ELSE IF kind = "SierraCompile" THEN "CompilationFailed"
    ELSE "SierraCompilationFailed"

\* the message of a compile response: stderr with the source path, then the
\* destination path, replaced by the caller's relative paths
CompileMessage(kind, p, stderr) ==
    Replace(Replace(stderr, get_file_path(p), p), DestPath(kind, p), DestRel(kind, p))

\* a faulty variant: the artifact is returned only by a successful job
CompileResponseFresh(kind, p, opened, f, o) ==
    Response(StatusOf(kind, o.status), CompileMessage(kind, p, o.stderr.s),
             IF o.status.some /\ o.status.code = 0
             THEN ReadBack(opened, f, DestPath(kind, p)) ELSE <<>>, <<>>)
\* the CompileResponse a compile job answers with, the open having been tried
CompileResponse(kind, p, opened, f, o) ==
    Response(StatusOf(kind, o.status), CompileMessage(kind, p, o.stderr.s),
             ReadBack(opened, f, DestPath(kind, p)), <<>>)

\* the entries of a directory
Children(f, d) == {q \in DOMAIN f : q # d /\ PathParent(q) = d}
\* the orders read_dir may yield the entries in
Orders(S) ==
    {o \in [1..Cardinality(S) -> S] : \A a, b \in 1..Cardinality(S) : o[a] = o[b] => a = b}
FileContentMap(f, q) == [file_name |-> FileName(q), file_content |-> f[q].data]

\* how a listing ends: with a list, or in the panic of read_dir().unwrap()
Listed(files) == [panic |-> FALSE, files |-> files]
ListingPanics == [panic |-> TRUE, files |-> <<>>]

\* a faulty variant: sub-directories are not descended into
get_files_flat(f, base) ==
    IF ~IsDir(f, base) THEN {Listed(<<>>)}
    ELSE IF ~f[base].readable THEN {ListingPanics}
    ELSE {Listed([i \in 1..Len(o) |-> FileContentMap(f, o[i])]) :
            o \in Orders({q \in Children(f, base) : f[q].t = "file" /\ f[q].utf8})}

\* the ways get_files_recursive may end, one per iteration order of the
\* directories it reads: a directory that cannot be read makes it panic, at
\* the top and in every recursive call
RECURSIVE get_files_recursive(_, _), ListEntries(_, _, _)
ListEntries(f, order, k) ==
    IF k > Len(order) THEN {Listed(<<>>)}
    ELSE LET q == order[k]
             here == IF f[q].t = "dir" THEN get_files_recursive(f, q)
                     ELSE IF f[q].utf8 THEN {Listed(<<FileContentMap(f, q)>>)}
                     ELSE {Listed(<<>>)}
         IN  {IF a.panic THEN ListingPanics
              ELSE IF b.panic THEN ListingPanics
              ELSE Listed(a.files \o b.files) :
                a \in here, b \in ListEntries(f, order, k + 1)}
get_files_recursive(f, base) ==
    IF ~IsDir(f, base) THEN {Listed(<<>>)}
    ELSE IF ~f[base].readable THEN {ListingPanics}
    ELSE UNION {ListEntries(f, o, 1) : o \in Orders(Children(f, base))}

\* the directory a Scarb build leaves its artifacts in
ScarbOutDir(p) == PathJoin(get_file_path(p), S_target_dev)

\* the message of a Scarb response: stdout then stderr, each with the project
\* directory replaced by the caller's relative path
ScarbMessage(p, o) ==
    Replace(o.stdout.s, get_file_path(p), p) \o Replace(o.stderr.s, get_file_path(p), p)

\* whether assembling the response unwraps a failed String::from_utf8
ResponsePanics(kind, o) ==
    IF kind \in CompileKinds THEN ~o.stderr.utf8
    ELSE IF kind = "ScarbCompile" THEN ~o.stdout.utf8 \/ ~o.stderr.utf8
    ELSE FALSE

VARIABLES
    pc,     \* where each request's handler stands
    req,    \* the command each request carries
    fs,     \* the files and directories on disk
    cmd,    \* the subprocess each handler spawned
    proc,   \* how far each subprocess is with writing its artifact
    out,    \* the outcome wait_with_output returned
    resp    \* what the handler returned
vars == <<pc, req, fs, cmd, proc, out, resp>>

Init ==
    /\ pc = [j \in Jobs |-> "idle"]
    /\ req = [j \in Jobs |-> NoReq]
    /\ fs = EmptyFs
    /\ cmd = [j \in Jobs |-> NoCmd]
    /\ proc = [j \in Jobs |-> "none"]
    /\ out = [j \in Jobs |-> NoOut]
    /\ resp = [j \in Jobs |-> NoResp]

(***************************************************************************)
(* What the external tools may do.                                         *)
(***************************************************************************)
\* the texts made of at most n of the pieces
RECURSIVE Concats(_, _)
Concats(pieces, n) ==
    IF n = 0 THEN {<<>>}
    ELSE Concats(pieces, n - 1)
            \cup {a \o b : a \in Concats(pieces, n - 1), b \in pieces}

\* what a compiler's diagnostics are made of: the paths it was given, the output
\* root, other text
Pieces(r) ==
    {get_file_path(r.path.s), DestPath(r.kind, r.path.s),
     PathJoin(TargetRoot(r.kind), <<>>), S_err}

Captured(r, n) == {Text(t) : t \in Concats(Pieces(r), n)} \cup {NonUtf8Bytes}

\* the outcomes a terminated subprocess of request r may have
Outcomes(r, codes, n) ==
    IF r.kind \in CompileKinds
    THEN {[status |-> s, stdout |-> Text(<<>>), stderr |-> e] :
            s \in codes, e \in Captured(r, n)}
    ELSE IF r.kind = "ScarbCompile"
    THEN {[status |-> s, stdout |-> o, stderr |-> e] :
            s \in codes,
            o \in {Text(get_file_path(r.path.s)), NonUtf8Bytes},
            e \in {Text(S_err \o get_file_path(r.path.s)), NonUtf8Bytes}}
    ELSE {[status |-> s, stdout |-> o, stderr |-> Text(<<>>)] :
            s \in codes, o \in {Text(S_err), NonUtf8Bytes, TruncatedBytes, LateBadBytes}}

\* what a Scarb build may leave under target/dev: relative name and node
ScarbNodes ==
    {[rel |-> <<"a">>, node |-> FileNode(TRUE, <<"build", "a">>)],
     [rel |-> <<"b">>, node |-> FileNode(FALSE, <<>>)],
     [rel |-> <<"d">>, node |-> DirNode],
     [rel |-> <<"d">>, node |-> LockedDirNode],
     [rel |-> <<"d", "/", "a">>, node |-> FileNode(TRUE, <<"build", "d/a">>)]}

(***************************************************************************)
(* The handlers, step by step.                                             *)
(***************************************************************************)
\* a request arrives
Receive(j, kinds, paths) ==
    /\ pc[j] = "idle"
    /\ \E k \in kinds :
         \E p \in (IF k \in {"CairoVersion", "Shutdown"} THEN {NoPath} ELSE paths) :
            req' = [req EXCEPT ![j] = [kind |-> k, path |-> p]]
    /\ pc' = [pc EXCEPT ![j] = "received"]
    /\ UNCHANGED <<fs, cmd, proc, out, resp>>

\* whether a handler answers before doing anything: Shutdown, a path that is
\* no text, an extension that is not the required one
ReturnsEarly(r) ==
    \/ r.kind = "Shutdown"
    \/ r.kind # "CairoVersion" /\ ~r.path.utf8
    \/ /\ r.kind \in CompileKinds
       /\ r.path.utf8
       /\ ~ExtSupported(r.kind, get_file_ext(r.path.s))

\* what it answers then (the result of Shutdown carries no status: "Shutdown"
\* names the variant; do_save_code returns the empty string)
EarlyReturn(r) ==
    IF r.kind = "Shutdown" THEN Response("Shutdown", <<>>, <<>>, <<>>)
    ELSE IF ~r.path.utf8
    THEN IF r.kind = "SaveCode" THEN Response("", <<>>, <<>>, <<>>)
         ELSE Response("FileNotFound", M_not_found, <<>>, <<>>)
    ELSE Response("FileExtensionNotSupported", M_not_supported, <<>>, <<>>)

\* dispatch_command and the head of the handler it calls: the path as text, the
\* extension check
Dispatch(j) ==
    /\ pc[j] = "received"
    /\ IF ReturnsEarly(req[j])
       THEN /\ resp' = [resp EXCEPT ![j] = EarlyReturn(req[j])]
            /\ pc' = [pc EXCEPT ![j] = "done"]
       ELSE /\ pc' = [pc EXCEPT ![j] = "validated"]
            /\ UNCHANGED resp
    /\ UNCHANGED <<req, fs, cmd, proc, out>>

\* the parent directory of the file to be written is created; an error is logged
\* and the handler goes on
Prepare(j) ==
    /\ pc[j] = "validated"
    /\ req[j].kind \in CompileKinds \cup {"SaveCode"}
    /\ \E ok \in BOOLEAN :
         fs' = IF ok THEN create_dir_all(fs, PathParent(PreparedPath(req[j]))) ELSE fs
    /\ pc' = [pc EXCEPT ![j] = "prepared"]
    /\ UNCHANGED <<req, cmd, proc, out, resp>>

\* the bodies an upload may carry: text, or bytes that are no text (ff fe)
UploadBodies(j) == {FileNode(TRUE, <<"upload", j>>), FileNode(FALSE, <<"ff", "fe">>)}

\* the uploaded bytes are written, as they are, to the resolved path
SaveFile(j) ==
    /\ pc[j] = "prepared"
    /\ req[j].kind = "SaveCode"
    /\ LET file_path == get_file_path(req[j].path.s)
       IN  IF IsDir(fs, PathParent(file_path)) /\ ~IsDir(fs, file_path)
           THEN /\ \E body \in UploadBodies(j) : fs' = Put(fs, file_path, body)
                /\ resp' = [resp EXCEPT ![j] = Response("", file_path, <<>>, <<>>)]
           ELSE /\ resp' = [resp EXCEPT ![j] = Response("", <<>>, <<>>, <<>>)]
                /\ UNCHANGED fs
    /\ pc' = [pc EXCEPT ![j] = "done"]
    /\ UNCHANGED <<req, cmd, proc, out>>

\* the command a handler builds
CommandOf(r) ==
    IF r.kind = "SierraCompile"
    THEN [exe |-> "cargo", tool |-> "starknet-compile", cwd |-> CAIRO_DIR,
          src |-> get_file_path(r.path.s), dst |-> DestPath(r.kind, r.path.s),
          flag |-> "--single-file"]
    ELSE IF r.kind = "CasmCompile"
    THEN [exe |-> "cargo", tool |-> "starknet-sierra-compile", cwd |-> CAIRO_DIR,
          src |-> get_file_path(r.path.s), dst |-> DestPath(r.kind, r.path.s),
          flag |-> ""]
    ELSE IF r.kind = "ScarbCompile"
    THEN [exe |-> "scarb", tool |-> "build", cwd |-> get_file_path(r.path.s),
          src |-> <<>>, dst |-> <<>>, flag |-> ""]
    ELSE [exe |-> "cargo", tool |-> "cairo-compile", cwd |-> CAIRO_DIR,
          src |-> <<>>, dst |-> <<>>, flag |-> "--version"]

\* a variant with a lock: one compile job per destination at a time
SpawnLocked(j) ==
    /\ \/ pc[j] = "prepared" /\ req[j].kind \in CompileKinds
       \/ pc[j] = "validated" /\ req[j].kind \in {"ScarbCompile", "CairoVersion"}
    /\ \A k \in Jobs \ {j} : pc[k] = "running" => cmd[k].dst # CommandOf(req[j]).dst
    /\ \E ok \in BOOLEAN :
         IF ok
         THEN /\ cmd' = [cmd EXCEPT ![j] = CommandOf(req[j])]
              /\ pc' = [pc EXCEPT ![j] = "running"]
         ELSE /\ pc' = [pc EXCEPT ![j] = "panicked"]
              /\ UNCHANGED cmd
    /\ UNCHANGED <<req, fs, proc, out, resp>>
\* spawn().expect(..): the subprocess starts, or the handler panics
Spawn(j) ==
    /\ \/ pc[j] = "prepared" /\ req[j].kind \in CompileKinds
       \/ pc[j] = "validated" /\ req[j].kind \in {"ScarbCompile", "CairoVersion"}
    /\ \E ok \in BOOLEAN :
         IF ok
         THEN /\ cmd' = [cmd EXCEPT ![j] = CommandOf(req[j])]
              /\ pc' = [pc EXCEPT ![j] = "running"]
         ELSE /\ pc' = [pc EXCEPT ![j] = "panicked"]
              /\ UNCHANGED cmd
    /\ UNCHANGED <<req, fs, proc, out, resp>>

\* the compiler starts writing its artifact
ToolWrites(j) ==
    /\ pc[j] = "running"
    /\ req[j].kind \in CompileKinds
    /\ proc[j] = "none"
    /\ IsDir(fs, PathParent(cmd[j].dst))
    /\ ~IsDir(fs, cmd[j].dst)
    /\ fs' = Put(fs, cmd[j].dst, FileNode(TRUE, <<"partial", j>>))
    /\ proc' = [proc EXCEPT ![j] = "partial"]
    /\ UNCHANGED <<pc, req, cmd, out, resp>>

\* the compiler finishes writing its artifact, as text or not
ToolFinishes(j) ==
    /\ pc[j] = "running"
    /\ proc[j] = "partial"
    /\ \E utf8 \in BOOLEAN :
         fs' = Put(fs, cmd[j].dst,
                   IF utf8 THEN FileNode(TRUE, <<"artifact", j>>) ELSE FileNode(FALSE, <<>>))
    /\ proc' = [proc EXCEPT ![j] = "full"]
    /\ UNCHANGED <<pc, req, cmd, out, resp>>

\* Scarb creates its output directory, which may be left with a mode that
\* lets nobody list it
ScarbMakesOutDir(j) ==
    /\ pc[j] = "running"
    /\ req[j].kind = "ScarbCompile"
    /\ ~IsDir(fs, ScarbOutDir(req[j].path.s))
    /\ \E node \in {DirNode, LockedDirNode} :
         fs' = Put(create_dir_all(fs, ScarbOutDir(req[j].path.s)),
                   ScarbOutDir(req[j].path.s), node)
    /\ UNCHANGED <<pc, req, cmd, proc, out, resp>>

\* Scarb leaves a file or a directory under its output directory
ScarbWrites(j) ==
    /\ pc[j] = "running"
    /\ req[j].kind = "ScarbCompile"
    /\ \E n \in ScarbNodes :
         LET q == PathJoin(ScarbOutDir(req[j].path.s), n.rel)
         IN  /\ q \notin DOMAIN fs
             /\ IsDir(fs, PathParent(q))
             /\ fs' = Put(fs, q, n.node)
    /\ UNCHANGED <<pc, req, cmd, proc, out, resp>>

\* wait_with_output().expect(..): the subprocess ends and its outcome is
\* returned, or waiting fails and the handler panics
Wait(j, codes, n) ==
    /\ pc[j] = "running"
    /\ \E ok \in BOOLEAN :
         IF ok
         THEN /\ \E o \in Outcomes(req[j], codes, n) : out' = [out EXCEPT ![j] = o]
              /\ pc' = [pc EXCEPT ![j] = "exited"]
         ELSE /\ pc' = [pc EXCEPT ![j] = "panicked"]
              /\ UNCHANGED out
    /\ UNCHANGED <<req, fs, cmd, proc, resp>>

\* what a handler returns once its subprocess has ended, given the list
\* get_files_recursive returned
Result(r, opened, f, o, files) ==
    IF r.kind \in CompileKinds THEN CompileResponse(r.kind, r.path.s, opened, f, o)
    ELSE IF r.kind = "ScarbCompile"
    THEN Response(StatusOf(r.kind, o.status), ScarbMessage(r.path.s, o), <<>>, files)
    ELSE IF o.stdout.utf8 THEN Response("", o.stdout.s, <<>>, <<>>)
    ELSE [NoResp EXCEPT !.ok = FALSE, !.message = FromUtf8Error(o.stdout)]

\* NamedFile::open(&sierra_path).await: the handler of a compile job tries to
\* open the artifact
OpenArtifact(j) ==
    /\ pc[j] = "exited"
    /\ req[j].kind \in CompileKinds
    /\ pc' = [pc EXCEPT ![j] = IF CanOpen(fs, cmd[j].dst) THEN "opened" ELSE "unopened"]
    /\ UNCHANGED <<req, fs, cmd, proc, out, resp>>

\* the response is assembled: the artifact, if it was opened, is read by its
\* path (fs::read_to_string(..).await), the output directory of a Scarb build
\* is listed (read_dir().unwrap()), the output is decoded (unwrap) and cleaned
\* of paths, the exit code becomes the status
Respond(j) ==
    /\ \/ pc[j] \in {"opened", "unopened"}
       \/ pc[j] = "exited" /\ req[j].kind \notin CompileKinds
    /\ \E l \in (IF req[j].kind = "ScarbCompile"
                  THEN get_files_recursive(fs, ScarbOutDir(req[j].path.s))
                  ELSE {Listed(<<>>)}) :
         IF l.panic \/ ResponsePanics(req[j].kind, out[j])
         THEN /\ pc' = [pc EXCEPT ![j] = "panicked"]
              /\ UNCHANGED resp
         ELSE /\ resp' = [resp EXCEPT
                            ![j] = Result(req[j], pc[j] = "opened", fs, out[j], l.files)]
              /\ pc' = [pc EXCEPT ![j] = "done"]
    /\ UNCHANGED <<req, fs, cmd, proc, out>>

(***************************************************************************)
(* Specifications.                                                         *)
(***************************************************************************)
\* one request, of any kind, on any path
Next ==
    \/ Receive(1, AllKinds, AllPaths)
    \/ Dispatch(1)
    \/ Prepare(1)
    \/ SaveFile(1)
    \/ Spawn(1)
    \/ ToolWrites(1)
    \/ ToolFinishes(1)
    \/ ScarbMakesOutDir(1)
    \/ ScarbWrites(1)
    \/ Wait(1, ExitCodes, MaxParts)
    \/ OpenArtifact(1)
    \/ Respond(1)
Spec == Init /\ [][Next]_vars

\* concurrent compile requests
NextRace ==
    \E j \in Jobs :
        \/ Receive(j, RaceKinds, RacePaths)
        \/ Dispatch(j)
        \/ Prepare(j)
        \/ Spawn(j)
        \/ ToolWrites(j)
        \/ ToolFinishes(j)
        \/ Wait(j, RaceCodes, 0)
        \/ OpenArtifact(j)
        \/ Respond(j)
SpecRace == Init /\ [][NextRace]_vars

\* compile requests one after the other
NextSeq ==
    \E j \in Jobs :
        \/ /\ \A k \in Jobs \ {j} : pc[k] \in {"idle", "done", "panicked"}
           /\ Receive(j, CompileKinds, SeqPaths)
        \/ Dispatch(j)
        \/ Prepare(j)
        \/ Spawn(j)
        \/ ToolWrites(j)
        \/ ToolFinishes(j)
        \/ Wait(j, RaceCodes, 0)
        \/ OpenArtifact(j)
        \/ Respond(j)
SpecSeq == Init /\ [][NextSeq]_vars

(***************************************************************************)
(* Vocabulary of the properties.                                           *)
(***************************************************************************)
\* the request has been dispatched
Dispatched(j) == pc[j] \notin {"idle", "received"}
\* the handler got as far as a running subprocess
Spawned(j) == cmd[j] # NoCmd
\* the request carries a path that is text
HasPath(j) == req[j].kind \notin {"CairoVersion", "Shutdown", ""} /\ req[j].path.utf8

\* the status the exit code of a job of this kind stands for
ExpectedStatus(kind, status) ==
    IF status.some /\ status.code = 0 THEN "Success"
    ELSE IF status.some /\ kind = "SierraCompile" THEN "CompilationFailed"
    ELSE IF status.some THEN "SierraCompilationFailed"
    ELSE "UnknownError"

\* the segments of a path
RECURSIVE Segments(_)
Segments(p) ==
    IF Positions(p, Slash) = {} THEN <<p>>
    ELSE LET i == CHOOSE k \in Positions(p, Slash) : \A m \in Positions(p, Slash) : k <= m
         IN  <<SubSeq(p, 1, i - 1)>> \o Segments(SubSeq(p, i + 1, Len(p)))
HasParentSegment(p) == \E i \in 1..Len(Segments(p)) : Segments(p)[i] = S_dotdot

\* walking the segments from depth d never leaves the starting directory
RECURSIVE StaysInside(_, _)
StaysInside(segs, d) ==
    IF Len(segs) = 0 THEN TRUE
    ELSE IF Head(segs) = S_dotdot THEN d > 0 /\ StaysInside(Tail(segs), d - 1)
    ELSE IF Head(segs) \in {<<>>, <<Dot>>} THEN StaysInside(Tail(segs), d)
    ELSE StaysInside(Tail(segs), d + 1)
\* the path, once resolved, is the root or lies below it
Descendant(root, p) ==
    /\ MatchAt(p, root \o <<Slash>>, 1)
    /\ StaysInside(Segments(SubSeq(p, Len(root) + 2, Len(p))), 0)

\* p lies below the directory base, by name
Below(p, base) == Len(p) > Len(base) + 1 /\ MatchAt(p, base \o <<Slash>>, 1)
\* the files under base that read as text
TextFilesUnder(f, base) ==
    {q \in DOMAIN f : f[q].t = "file" /\ f[q].utf8 /\ Below(q, base)}
\* how often an entry occurs in a list
Count(list, e) == Cardinality({i \in 1..Len(list) : list[i] = e})

(***************************************************************************)
(* Properties.                                                             *)
(***************************************************************************)

\* C1: once the subprocess of a Sierra, CASM or Scarb job has ended and the
\* handler has answered, the status is Success for exit code 0, the kind's
\* failure status for any other exit code, UnknownError for no exit code,
\* whatever was captured and whatever is on disk.
C1_ExitCodeDecidesStatus ==
    \A j \in Jobs :
        (pc[j] = "done" /\ Spawned(j) /\ req[j].kind \in CompileKinds \cup {"ScarbCompile"})
            => resp[j].status = ExpectedStatus(req[j].kind, out[j].status)

\* C1 witness: a CASM job killed by a signal answers UnknownError although an
\* artifact is on disk and diagnostics were captured.
C1_Witness ==
    \E j \in Jobs :
        /\ pc[j] = "done" /\ req[j].kind = "CasmCompile"
        /\ ~out[j].status.some
        /\ resp[j].status = "UnknownError"
        /\ resp[j].file_content = <<"artifact", j>>
        /\ resp[j].message # <<>>

\* C2: a Sierra (CASM) request whose path does not have the extension cairo
\* (sierra), compared exactly, is answered FileExtensionNotSupported with an
\* empty file_content, and nothing was spawned and nothing created on disk.
C2_BadExtensionShortCircuits ==
    \A j \in Jobs :
        (/\ Dispatched(j) /\ HasPath(j) /\ req[j].kind \in CompileKinds
         /\ get_file_ext(req[j].path.s) # RequiredExt(req[j].kind))
            => /\ pc[j] = "done"
               /\ resp[j].status = "FileExtensionNotSupported"
               /\ resp[j].file_content = <<>>
               /\ ~Spawned(j)
               /\ fs = EmptyFs

\* C2 witness: test.CAIRO has been refused.
C2_Witness ==
    \E j \in Jobs :
        /\ pc[j] = "done" /\ req[j].kind = "SierraCompile"
        /\ req[j].path = [utf8 |-> TRUE, s |-> S_test \o <<Dot>> \o S_CAIRO]
        /\ resp[j].status = "FileExtensionNotSupported"

\* C3: no failure inside a job aborts the request handler: a tool that cannot
\* be spawned, a failed wait and captured output that is no UTF-8 text all end
\* in a structured result.
C3_HandlerNeverAborts ==
    \A j \in Jobs : pc[j] # "panicked"

\* C4: every path used on disk lies under its root, and a path with a ".."
\* segment is refused with InvalidPath (if not already for its extension)
\* before anything is written, created or spawned.
C4_PathsStayUnderRoot ==
    \A j \in Jobs :
        /\ (Dispatched(j) /\ HasPath(j) /\ HasParentSegment(req[j].path.s))
            => /\ pc[j] = "done"
                    => resp[j].status \in {"InvalidPath", "FileExtensionNotSupported"}
               /\ ~Spawned(j)
               /\ fs = EmptyFs
        /\ (Spawned(j) /\ req[j].kind \in CompileKinds)
            => /\ Descendant(CAIRO_ROOT, cmd[j].src)
               /\ Descendant(TargetRoot(req[j].kind), cmd[j].dst)
        /\ (Spawned(j) /\ req[j].kind = "ScarbCompile")
            => Descendant(CAIRO_ROOT, cmd[j].cwd)
        /\ (pc[j] = "done" /\ req[j].kind = "SaveCode" /\ resp[j].message # <<>>)
            => Descendant(CAIRO_ROOT, resp[j].message)

\* C5: the message of a compile response holds no occurrence of the source
\* file's absolute path and none of the destination file's absolute path.
C5_MessageHasNoAbsolutePath ==
    \A j \in Jobs :
        (pc[j] = "done" /\ Spawned(j) /\ req[j].kind \in CompileKinds)
            => /\ ~Contains(resp[j].message, cmd[j].src)
               /\ ~Contains(resp[j].message, cmd[j].dst)

\* C6: the destination of a compile job is the output root joined with the
\* source path in which only the final extension is replaced, so no other
\* accepted source path has the same destination.
C6_OnlyTheExtensionIsReplaced ==
    \A j \in Jobs :
        (Spawned(j) /\ req[j].kind \in CompileKinds)
            => LET p == req[j].path.s
                   kind == req[j].kind
               IN  /\ cmd[j].dst =
                        PathJoin(TargetRoot(kind),
                                 SubSeq(p, 1, LastIndexOf(p, Dot)) \o TargetExt(kind))
                   /\ \A q \in RelPaths :
                        (q # p /\ get_file_ext(q) = RequiredExt(kind))
                            => DestPath(kind, q) # cmd[j].dst

\* C7: file_content is the text of the destination file when it can be opened
\* and read, and the empty string otherwise; it never holds an error's text.
C7_ReadBackIsTextOrEmpty ==
    \A j \in Jobs :
        (pc[j] = "done" /\ Spawned(j) /\ req[j].kind \in CompileKinds)
            => resp[j].file_content =
                 (IF /\ cmd[j].dst \in DOMAIN fs
                     /\ fs[cmd[j].dst].t = "file"
                     /\ fs[cmd[j].dst].utf8
                  THEN fs[cmd[j].dst].data ELSE <<>>)

\* C8: whatever the exit status, the file list of a Scarb response has one
\* entry (name, text) per file below <project_dir>/target/dev that reads as
\* text, sub-directories included, nothing else, and is empty when the
\* directory is absent or empty; the status follows from the exit code alone.
C8_ScarbListsEveryTextFile ==
    \A j \in Jobs :
        (pc[j] = "done" /\ Spawned(j) /\ req[j].kind = "ScarbCompile")
            => LET T == TextFilesUnder(fs, ScarbOutDir(req[j].path.s))
                   files == resp[j].files
               IN  /\ Len(files) = Cardinality(T)
                   /\ \A q \in T :
                        Count(files, FileContentMap(fs, q))
                            = Cardinality({x \in T : FileContentMap(fs, x) = FileContentMap(fs, q)})
                   /\ resp[j].status = ExpectedStatus("ScarbCompile", out[j].status)

\* C8 witness: a failed build whose output directory holds a text file, a file
\* that is no text and a sub-directory with a text file answers with the two
\* text files.
C8_Witness ==
    \E j \in Jobs :
        /\ pc[j] = "done" /\ req[j].kind = "ScarbCompile"
        /\ resp[j].status = "SierraCompilationFailed"
        /\ Len(resp[j].files) = 2
        /\ \E q \in DOMAIN fs : fs[q].t = "file" /\ ~fs[q].utf8

\* C9: nothing serializes concurrent jobs on one path: whatever the other
\* requests are doing, a handler that has validated its path can create the
\* directory, one that has created it can spawn its tool, and one whose tool
\* runs can see it end and then try to open the artifact.
C9_NoJobWaitsForAnother ==
    \A j \in Jobs :
        /\ pc[j] = "validated" => ENABLED Prepare(j)
        /\ pc[j] = "prepared" => ENABLED Spawn(j)
        /\ pc[j] = "running" => ENABLED Wait(j, RaceCodes, 0)
        /\ pc[j] = "exited" => ENABLED OpenArtifact(j)

\* C9 witness: a job whose own tool wrote the whole artifact has answered with
\* what another job's tool, still running, has written so far.
C9_Witness ==
    \E j, k \in Jobs :
        /\ j # k
        /\ req[j] = req[k]
        /\ pc[j] = "done" /\ proc[j] = "full"
        /\ pc[k] = "running"
        /\ resp[j].file_content = <<"partial", k>>

\* C10: no step of a handler removes or changes a file that exists, and a job
\* whose tool ends with a nonzero exit code, or none, without writing the
\* destination answers with its failure status and with the text the
\* destination already held.
C10_FailedJobReturnsTheOldArtifact ==
    [][\A j \in Jobs :
          /\ \A q \in DOMAIN fs :
                /\ q \in DOMAIN fs'
                /\ fs'[q] # fs[q] => \E k \in Jobs : pc[k] = "running" /\ proc'[k] # proc[k]
          /\ (/\ pc[j] \in {"opened", "unopened"} /\ pc'[j] = "done"
              /\ proc[j] = "none"
              /\ ~(out[j].status.some /\ out[j].status.code = 0)
              /\ DestPath(req[j].kind, req[j].path.s) \in DOMAIN fs
              /\ fs[DestPath(req[j].kind, req[j].path.s)].utf8)
                => /\ resp'[j].file_content = fs[DestPath(req[j].kind, req[j].path.s)].data
                   /\ resp'[j].status \in {"CompilationFailed", "SierraCompilationFailed",
                                           "UnknownError"}]_vars

\* C10 witness: after a successful CASM job, a later job on the same path whose
\* tool failed without writing has answered with the earlier job's artifact.
C10_Witness ==
    \E j, k \in Jobs :
        /\ j # k
        /\ req[j] = req[k] /\ req[j].kind = "CasmCompile"
        /\ pc[k] = "done" /\ resp[k].status = "Success"
        /\ resp[k].file_content = <<"artifact", k>>
        /\ pc[j] = "done" /\ proc[j] = "none"
        /\ resp[j].status = "SierraCompilationFailed"
        /\ resp[j].file_content = <<"artifact", k>>
=============================================================================
